---- MODULE Spec2Model ----
(***************************************************************************)
(* State-machine model of the HUGE Handyman inventory application          *)
(* (huge_inventory_starter/app.py): the tools and transactions tables, the *)
(* per-browser Streamlit session state, and the handlers that read and     *)
(* write them.  Every db_exec / db_read_df call is one database            *)
(* transaction and therefore one atomic step; a handler that issues        *)
(* several of them is a sequence of steps that other sessions interleave   *)
(* with.                                                                   *)
(*                                                                         *)
(* session_state["active_cat"] only selects which rows a page draws, and   *)
(* set_category writes nothing else, so the category of a click is an      *)
(* input of the click (the category button pressed before it).             *)
(***************************************************************************)
EXTENDS Integers, Sequences, FiniteSets

\* ------------------------------------------------------------------ bounds
MaxQty == 2        \* largest quantity an administrator types into a form
MaxEvents == 3     \* transaction rows ever inserted (serial transactions.id)

\* ------------------------------------------------------- fixed small sets
Sessions == {"s1", "s2"}            \* browser sessions (st.session_state each)
Users == {"Alice", "Bob"}           \* names chosen in the sidebar
\* The name each browser's user picks or types in the sidebar.
NameTyped(s) == IF s = "s1" THEN "Alice" ELSE "Bob"
Solo == {"s1"}                      \* the administrator's browser alone
ToolIds == {1}                      \* values the serial tools.id hands out
CatalogIds == {1, 2, 3}             \* tool ids of the two-tool catalog (SpecCatalog)
\* Values the serial may still hand out: 1 to the first row of the empty
\* table, 3 to the row saved after the two rows the two-tool catalog starts with.
NewToolIds == ToolIds \cup {3}
ToolNames == {"drill", "saw"}       \* item names typed by the administrator
CATEGORIES == {"Power Tools", "Hand Tools"}
ADMIN_PASSWORD == "changeme"
\* The passwords typed in each browser: only s1's user knows the secret.
Passwords(s) == IF s = "s1" THEN {ADMIN_PASSWORD, "wrong"} ELSE {"wrong"}
Guest == "Guest"
Actors == Users \cup {Guest}
None == "<None>"                    \* Python None returned by last_holder

VARIABLES
    tools,          \* table tools: id -> [name, category, quantity, current_out]
    next_tool_id,   \* the serial sequence behind tools.id
    transactions,   \* table transactions in id order: <<[id, tool_id, user_name, action, ts]>>
    next_tx_id,     \* the serial sequence behind transactions.id
    session,        \* st.session_state of each session: [is_admin, current_user]
    pc,             \* where each session's script run stands
    local,          \* the running handler's arguments and the row it has read
    qty_edited,     \* history: ids of tools whose quantity was edited after creation
    users,          \* table users (the roster): the set of names
    text_log,       \* extra_material_log and bags_accessories_log: <<[table, user_name]>>
    clock           \* now() of the database server

vars == <<tools, next_tool_id, transactions, next_tx_id, session, pc, local, qty_edited,
          users, text_log, clock>>

\* --------------------------------------------------------------- helpers
Max(a, b) == IF a >= b THEN a ELSE b

\* The rows of transactions that reference tool tid, in id order.
events_for(tid) == SelectSeq(transactions, LAMBDA e : e.tool_id = tid)

\* Variant of available_qty without the clip at 0.
available_qty_unclipped(row) == row.quantity - row.current_out

\* df["available_qty"] = (quantity - current_out).clip(lower=0)
available_qty(row) == Max(row.quantity - row.current_out, 0)

\* select * from tools where category = :c, with the available_qty column.
list_tools_by_category(cat) ==
    { [id |-> t, name |-> tools[t].name, quantity |-> tools[t].quantity,
       current_out |-> tools[t].current_out, available_qty |-> available_qty(tools[t])]
      : t \in { x \in DOMAIN tools : tools[x].category = cat } }

\* The chip drawn for a row: Available when qty - current_out > 0.
row_chip(row) == IF row.quantity - row.current_out > 0 THEN "Available" ELSE "Unavailable"

\* Variant of sorts_before that breaks ts ties by the smaller id.
sorts_before_id_asc(a, b) == a.ts > b.ts \/ (a.ts = b.ts /\ a.id < b.id)

\* Row a comes before row b under "order by ts desc, id desc".
sorts_before(a, b) == a.ts > b.ts \/ (a.ts = b.ts /\ a.id > b.id)

\* The rows evs as the query returns them: order by ts desc, id desc.
RECURSIVE insert_row(_, _)
insert_row(e, sorted) ==
    IF sorted = << >> THEN <<e>>
    ELSE IF sorts_before(e, Head(sorted)) THEN <<e>> \o sorted
    ELSE <<Head(sorted)>> \o insert_row(e, Tail(sorted))

RECURSIVE order_by_ts_desc_id_desc(_)
order_by_ts_desc_id_desc(evs) ==
    IF evs = << >> THEN << >>
    ELSE insert_row(Head(evs), order_by_ts_desc_id_desc(Tail(evs)))

\* select user_name, action ... where tool_id = :tid order by ts desc, id desc
\* limit 1; the user_name when that row is a check_out, else None.
last_holder(tid) ==
    LET df == order_by_ts_desc_id_desc(events_for(tid))
    IN IF df # << >> /\ df[1].action = "check_out"
       THEN df[1].user_name
       ELSE None

\* Variant of can_checkin without the administrator's pass.
can_checkin_holder_only(current_out, is_admin, holder, user) ==
    current_out > 0 /\ holder = user

\* can_checkin = (current_out > 0) and (is_admin or (holder == user))
can_checkin(current_out, is_admin, holder, user) ==
    current_out > 0 /\ (is_admin \/ holder = user)

\* Rows of the "Your current tools" query for my_name.
my_df(my_name) ==
    { t \in DOMAIN tools : last_holder(t) = my_name }

\* ts_from: the server time when the handler's last statement returned.
NoLocals == [tool_id |-> 0, delete_history |-> FALSE, current_out |-> 0, moved |-> FALSE,
             ts_from |-> 0]

\* Handlers of a started script run that will still insert a transaction row.
Inserting == { s \in Sessions : pc[s] \in {"co_read", "co_update", "co_insert",
                                            "ci_holder", "ci_update", "ci_insert"} }

\* MaxEvents caps the rows inserted into transactions and the two text logs.
CanStartInsert == next_tx_id + Cardinality(Inserting) + Len(text_log) <= MaxEvents

Init ==
    /\ tools = << >>
    /\ next_tool_id = 1
    /\ transactions = << >>
    /\ next_tx_id = 1
    /\ session = [s \in Sessions |-> [is_admin |-> FALSE, current_user |-> Guest]]
    /\ pc = [s \in Sessions |-> "idle"]
    /\ local = [s \in Sessions |-> NoLocals]
    /\ qty_edited = {}
    /\ users = {}
    /\ text_log = << >>
    /\ clock = 0

DbUnchanged == UNCHANGED <<tools, next_tool_id, transactions, next_tx_id, qty_edited,
                           users, text_log, clock>>

\* ------------------------------------------------------ sidebar handlers
\* "Use Roster": the picked or typed name becomes current_user.
UseRoster(s, name) ==
    /\ pc[s] = "idle"
    /\ session' = [session EXCEPT ![s].current_user = name]
    /\ UNCHANGED <<pc, local>>
    /\ DbUnchanged

Login(s, admin_pw) ==
    /\ pc[s] = "idle"
    /\ session' = [session EXCEPT ![s].is_admin = (admin_pw = ADMIN_PASSWORD)]
    /\ UNCHANGED <<pc, local>>
    /\ DbUnchanged

Logout(s) ==
    /\ pc[s] = "idle"
    /\ session[s].is_admin
    /\ session' = [session EXCEPT ![s].is_admin = FALSE]
    /\ UNCHANGED <<pc, local>>
    /\ DbUnchanged

\* The message of a finished handler is on the page; the next script run starts.
rerun(s) ==
    /\ pc[s] \in {"saved", "save_error", "co_false", "ci_refused", "dt_raised", "db_error"}
    /\ pc' = [pc EXCEPT ![s] = "idle"]
    /\ local' = [local EXCEPT ![s] = NoLocals]
    /\ UNCHANGED session
    /\ DbUnchanged

\* ------------------------------------------------- administrator: catalog
\* Variant of upsert_tool whose conflict target is (name, category).
upsert_tool_per_category(n, c, q) ==
    IF \E t \in DOMAIN tools : tools[t].name = n /\ tools[t].category = c
    THEN LET t == CHOOSE x \in DOMAIN tools : tools[x].name = n /\ tools[x].category = c
         IN [tools EXCEPT ![t].quantity = q]
    ELSE [t \in DOMAIN tools \cup {next_tool_id} |->
            IF t = next_tool_id
            THEN [name |-> n, category |-> c, quantity |-> q, current_out |-> 0]
            ELSE tools[t]]

\* INSERT INTO tools ... ON CONFLICT(name) DO UPDATE SET category, quantity.
\* tools.name is unique, so at most one row carries name n.
upsert_tool(n, c, q) ==
    IF \E t \in DOMAIN tools : tools[t].name = n
    THEN LET t == CHOOSE x \in DOMAIN tools : tools[x].name = n
         IN [tools EXCEPT ![t].category = c, ![t].quantity = q]
    ELSE [t \in DOMAIN tools \cup {next_tool_id} |->
            IF t = next_tool_id
            THEN [name |-> n, category |-> c, quantity |-> q, current_out |-> 0]
            ELSE tools[t]]

\* "Save to selected category" of the admin_add_update form; local.moved notes
\* (for observation only) that the statement hit a row of another category.
AdminSave(s, new_tool, active_cat, new_qty) ==
    /\ pc[s] = "idle"
    /\ session[s].is_admin
    /\ (\E t \in DOMAIN tools : tools[t].name = new_tool) \/ next_tool_id \in NewToolIds
    /\ tools' = upsert_tool(new_tool, active_cat, new_qty)
    /\ next_tool_id' = IF \E t \in DOMAIN tools : tools[t].name = new_tool
                       THEN next_tool_id ELSE next_tool_id + 1
    /\ qty_edited' = qty_edited \cup
                       { t \in DOMAIN tools : tools[t].name = new_tool /\ tools[t].quantity # new_qty }
    /\ pc' = [pc EXCEPT ![s] = "saved"]
    /\ local' = [local EXCEPT ![s] =
                    [NoLocals EXCEPT
                       !.tool_id = CHOOSE t \in DOMAIN tools' : tools'[t].name = new_tool,
                       !.moved = \E t \in DOMAIN tools :
                                     tools[t].name = new_tool /\ tools[t].category # active_cat]]
    /\ UNCHANGED <<transactions, next_tx_id, session, users, text_log, clock>>

\* Variant of update_tool_fields that never stores a quantity below current_out.
update_tool_fields_clamped(tool_id, n, c, q) ==
    IF tool_id \notin DOMAIN tools
    THEN tools
    ELSE [tools EXCEPT ![tool_id].name = n, ![tool_id].category = c,
                       ![tool_id].quantity = Max(q, tools[tool_id].current_out)]

\* update tools set name, category, quantity where id = :tid
update_tool_fields(tool_id, n, c, q) ==
    IF tool_id \notin DOMAIN tools
    THEN tools
    ELSE [tools EXCEPT ![tool_id].name = n, ![tool_id].category = c, ![tool_id].quantity = q]

\* Variant of name_taken for a tools table without the unique constraint.
name_taken_never(tool_id, n) == FALSE

\* The unique constraint on tools.name makes the update fail.
name_taken(tool_id, n) ==
    /\ tool_id \in DOMAIN tools
    /\ \E t \in DOMAIN tools : t # tool_id /\ tools[t].name = n

\* "Save changes" in the row's admin expander; the exception is caught and shown.
SaveChanges(s, t, new_name, new_cat, new_qty2) ==
    /\ pc[s] = "idle"
    /\ session[s].is_admin
    /\ t \in DOMAIN tools
    /\ IF name_taken(t, new_name)
       THEN /\ UNCHANGED <<tools, qty_edited>>
            /\ pc' = [pc EXCEPT ![s] = "save_error"]
            /\ local' = [local EXCEPT ![s] = [NoLocals EXCEPT !.tool_id = t]]
       ELSE /\ tools' = update_tool_fields(t, new_name, new_cat, new_qty2)
            /\ qty_edited' = IF tools[t].quantity # new_qty2
                             THEN qty_edited \cup {t} ELSE qty_edited
            /\ UNCHANGED <<pc, local>>
    /\ UNCHANGED <<next_tool_id, transactions, next_tx_id, session, users, text_log, clock>>

\* ------------------------------------------------------ record_checkout
\* "Check Out" on a row whose qty - current_out read by the page is > 0.
ClickCheckOut(s, t) ==
    /\ pc[s] = "idle"
    /\ CanStartInsert
    /\ t \in DOMAIN tools
    /\ tools[t].quantity - tools[t].current_out > 0
    /\ pc' = [pc EXCEPT ![s] = "co_read"]
    /\ local' = [local EXCEPT ![s] = [NoLocals EXCEPT !.tool_id = t]]
    /\ UNCHANGED session
    /\ DbUnchanged

\* Variant of no_units that rejects only a negative availability.
no_units_negative_only(tool_id) ==
    \/ tool_id \notin DOMAIN tools
    \/ tools[tool_id].quantity - tools[tool_id].current_out < 0

\* df.empty, or available <= 0 on the row read by record_checkout.
no_units(tool_id) ==
    \/ tool_id \notin DOMAIN tools
    \/ tools[tool_id].quantity - tools[tool_id].current_out <= 0

\* Variant of co_read that also returns False to an actor whose last event on
\* the tool is their own check_out.
co_read_one_per_actor(s) ==
    /\ pc[s] = "co_read"
    /\ pc' = [pc EXCEPT ![s] = IF \/ no_units(local[s].tool_id)
                                  \/ last_holder(local[s].tool_id) = session[s].current_user
                               THEN "co_false" ELSE "co_update"]
    /\ UNCHANGED <<session, local>>
    /\ DbUnchanged

\* df = select quantity, current_out ...; the two early returns.
co_read(s) ==
    /\ pc[s] = "co_read"
    /\ pc' = [pc EXCEPT ![s] = IF no_units(local[s].tool_id) THEN "co_false" ELSE "co_update"]
    /\ UNCHANGED <<session, local>>
    /\ DbUnchanged

\* update tools set current_out = current_out + 1 where id = :tid
co_update(s) ==
    /\ pc[s] = "co_update"
    /\ LET tid == local[s].tool_id
       IN tools' = IF tid \in DOMAIN tools
                   THEN [tools EXCEPT ![tid].current_out = @ + 1]
                   ELSE tools
    /\ pc' = [pc EXCEPT ![s] = "co_insert"]
    /\ local' = [local EXCEPT ![s].ts_from = clock]
    /\ UNCHANGED <<next_tool_id, transactions, next_tx_id, session, qty_edited, users, text_log, clock>>

\* insert into transactions(tool_id, user_name, action); id is the next serial
\* value and ts is now(), the time at which the insert's transaction began.
insert_transaction(tid, u, a, now) ==
    Append(transactions, [id |-> next_tx_id, tool_id |-> tid, user_name |-> u, action |-> a,
                          ts |-> now])

\* insert into transactions(..., 'check_out'); return True; st.rerun().
\* db_exec opens the transaction at some time after the update returned.
co_insert(s) ==
    /\ pc[s] = "co_insert"
    /\ \E now \in local[s].ts_from..clock :
          transactions' = insert_transaction(local[s].tool_id, session[s].current_user,
                                             "check_out", now)
    /\ next_tx_id' = next_tx_id + 1
    /\ pc' = [pc EXCEPT ![s] = "idle"]
    /\ local' = [local EXCEPT ![s] = NoLocals]
    /\ UNCHANGED <<tools, next_tool_id, session, qty_edited, users, text_log, clock>>

\* ------------------------------------------------------- record_checkin
\* "Check In" on a row: the page has read the row (current_out) ...
ClickCheckIn(s, t) ==
    /\ pc[s] = "idle"
    /\ CanStartInsert
    /\ t \in DOMAIN tools
    /\ pc' = [pc EXCEPT ![s] = "ci_holder"]
    /\ local' = [local EXCEPT ![s] = [NoLocals EXCEPT !.tool_id = t,
                                                      !.current_out = tools[t].current_out]]
    /\ UNCHANGED session
    /\ DbUnchanged

\* ... then holder = last_holder(tool_id), and can_checkin gates the call.
ci_holder(s) ==
    /\ pc[s] = "ci_holder"
    /\ pc' = [pc EXCEPT ![s] =
                IF can_checkin(local[s].current_out, session[s].is_admin,
                               last_holder(local[s].tool_id), session[s].current_user)
                THEN "ci_update" ELSE "ci_refused"]
    /\ UNCHANGED <<session, local>>
    /\ DbUnchanged

\* "Check In" of the "Your current tools" expander.
ClickMyCheckIn(s, t) ==
    /\ pc[s] = "idle"
    /\ CanStartInsert
    /\ session[s].current_user # Guest
    /\ t \in my_df(session[s].current_user)
    /\ pc' = [pc EXCEPT ![s] = "ci_update"]
    /\ local' = [local EXCEPT ![s] = [NoLocals EXCEPT !.tool_id = t]]
    /\ UNCHANGED session
    /\ DbUnchanged

\* Variant of checkin_decrement without greatest(.., 0).
checkin_decrement_unclamped(current_out) == current_out - 1

\* greatest(current_out - 1, 0)
checkin_decrement(current_out) == Max(current_out - 1, 0)

\* update tools set current_out = greatest(current_out - 1, 0) where id = :tid
ci_update(s) ==
    /\ pc[s] = "ci_update"
    /\ LET tid == local[s].tool_id
       IN tools' = IF tid \in DOMAIN tools
                   THEN [tools EXCEPT ![tid].current_out = checkin_decrement(@)]
                   ELSE tools
    /\ pc' = [pc EXCEPT ![s] = "ci_insert"]
    /\ local' = [local EXCEPT ![s].current_out = 0, ![s].ts_from = clock]
    /\ UNCHANGED <<next_tool_id, transactions, next_tx_id, session, qty_edited, users, text_log, clock>>

\* insert into transactions(..., 'check_in'); return True; st.rerun()
ci_insert(s) ==
    /\ pc[s] = "ci_insert"
    /\ \E now \in local[s].ts_from..clock :
          transactions' = insert_transaction(local[s].tool_id, session[s].current_user,
                                             "check_in", now)
    /\ next_tx_id' = next_tx_id + 1
    /\ pc' = [pc EXCEPT ![s] = "idle"]
    /\ local' = [local EXCEPT ![s] = NoLocals]
    /\ UNCHANGED <<tools, next_tool_id, session, qty_edited, users, text_log, clock>>

\* ----------------------------------------------------------- delete_tool
\* Variant of ClickDelete drawn outside the "if is_admin" block.
ClickDelete_any_session(s, t, delete_history) ==
    /\ pc[s] = "idle"
    /\ t \in DOMAIN tools
    /\ pc' = [pc EXCEPT ![s] = "dt_read"]
    /\ local' = [local EXCEPT ![s] = [NoLocals EXCEPT !.tool_id = t,
                                                      !.delete_history = delete_history]]
    /\ UNCHANGED session
    /\ DbUnchanged

\* "Delete tool" in the row's admin expander, with the "Also delete history" box.
ClickDelete(s, t, delete_history) ==
    /\ pc[s] = "idle"
    /\ session[s].is_admin
    /\ t \in DOMAIN tools
    /\ pc' = [pc EXCEPT ![s] = "dt_read"]
    /\ local' = [local EXCEPT ![s] = [NoLocals EXCEPT !.tool_id = t,
                                                      !.delete_history = delete_history]]
    /\ UNCHANGED session
    /\ DbUnchanged

\* Variant of delete_refused that lets a delete with history through.
delete_refused_unless_history(tool_id, delete_history) ==
    tool_id \in DOMAIN tools /\ tools[tool_id].current_out > 0 /\ ~delete_history

\* Variant of delete_refused that guards only a delete with history.
delete_refused_only_with_history(tool_id, delete_history) ==
    tool_id \in DOMAIN tools /\ tools[tool_id].current_out > 0 /\ delete_history

\* if not row.empty and int(current_out or 0) > 0: raise
delete_refused(tool_id, delete_history) ==
    tool_id \in DOMAIN tools /\ tools[tool_id].current_out > 0

dt_read(s) ==
    /\ pc[s] = "dt_read"
    /\ pc' = [pc EXCEPT ![s] =
                IF delete_refused(local[s].tool_id, local[s].delete_history) THEN "dt_raised"
                ELSE IF local[s].delete_history THEN "dt_delete_history"
                ELSE "dt_delete_tool"]
    /\ UNCHANGED <<session, local>>
    /\ DbUnchanged

\* delete from transactions where tool_id = :tid
dt_delete_history(s) ==
    /\ pc[s] = "dt_delete_history"
    /\ transactions' = SelectSeq(transactions, LAMBDA e : e.tool_id # local[s].tool_id)
    /\ pc' = [pc EXCEPT ![s] = "dt_delete_tool"]
    /\ UNCHANGED <<tools, next_tool_id, next_tx_id, session, local, qty_edited, users, text_log, clock>>

\* Variant of dt_delete_tool in which the tool's events go with the row.
dt_delete_tool_cascade(s) ==
    /\ pc[s] = "dt_delete_tool"
    /\ tools' = [t \in DOMAIN tools \ {local[s].tool_id} |-> tools[t]]
    /\ transactions' = SelectSeq(transactions, LAMBDA e : e.tool_id # local[s].tool_id)
    /\ pc' = [pc EXCEPT ![s] = "idle"]
    /\ local' = [local EXCEPT ![s] = NoLocals]
    /\ UNCHANGED <<next_tool_id, next_tx_id, session, qty_edited, users, text_log, clock>>

\* delete from tools where id = :tid; st.rerun()
dt_delete_tool(s) ==
    /\ pc[s] = "dt_delete_tool"
    /\ tools' = [t \in DOMAIN tools \ {local[s].tool_id} |-> tools[t]]
    /\ pc' = [pc EXCEPT ![s] = "idle"]
    /\ local' = [local EXCEPT ![s] = NoLocals]
    /\ UNCHANGED <<next_tool_id, transactions, next_tx_id, session, qty_edited, users, text_log, clock>>

\* "Remove image" in the row's admin expander.  The forms' image inputs are
\* left empty, so the rows carry no image columns and the update changes none
\* of the columns kept here.
RemoveImage(s, t) ==
    /\ pc[s] = "idle"
    /\ session[s].is_admin
    /\ t \in DOMAIN tools
    /\ pc' = [pc EXCEPT ![s] = "saved"]
    /\ local' = [local EXCEPT ![s] = [NoLocals EXCEPT !.tool_id = t]]
    /\ UNCHANGED session
    /\ DbUnchanged

\* ------------------------------------------------- roster and text logs
\* "Add to roster": insert into users(name, pin) ... on conflict(name) do nothing.
AddToRoster(s, new_emp) ==
    /\ pc[s] = "idle"
    /\ users' = users \cup {new_emp}
    /\ UNCHANGED <<tools, next_tool_id, transactions, next_tx_id, session, pc, local,
                   qty_edited, text_log, clock>>

\* "Delete selected": delete from users where name = :n.
DeleteSelected(s, rm_emp) ==
    /\ pc[s] = "idle"
    /\ rm_emp \in users
    /\ users' = users \ {rm_emp}
    /\ UNCHANGED <<tools, next_tool_id, transactions, next_tx_id, session, pc, local,
                   qty_edited, text_log, clock>>

\* insert into {table}(user_name, entry)
log_text(which, user_name) ==
    Append(text_log, [table |-> IF which = "extra" THEN "extra_material_log"
                                ELSE "bags_accessories_log",
                      user_name |-> user_name])

\* "Submit" of a text-entry category's form with a non-blank entry.
SubmitLog(s, which) ==
    /\ pc[s] = "idle"
    /\ CanStartInsert
    /\ text_log' = log_text(which, session[s].current_user)
    /\ UNCHANGED <<tools, next_tool_id, transactions, next_tx_id, session, pc, local,
                   qty_edited, users, clock>>

\* --------------------------------------------------- storage and clock
\* The statement record_checkout or record_checkin is about to issue raises
\* (connection lost, server down): the exception leaves the handler and the
\* script run ends with the error on the page.
storage_failure(s) ==
    /\ pc[s] \in {"co_read", "co_update", "co_insert", "ci_update", "ci_insert"}
    /\ pc' = [pc EXCEPT ![s] = "db_error"]
    /\ UNCHANGED <<session, local>>
    /\ DbUnchanged

\* Time passes on the database server.  Only the order of the ts values
\* matters, so the clock is not advanced past the number of rows inserted.
Tick ==
    /\ clock < next_tx_id - 1
    /\ clock' = clock + 1
    /\ UNCHANGED <<tools, next_tool_id, transactions, next_tx_id, session, pc, local,
                   qty_edited, users, text_log>>

\* ------------------------------------------------------------------ Next
\* One step of the script run of browser session s.
SessionNext(s) ==
    \/ UseRoster(s, NameTyped(s))
    \/ \E admin_pw \in Passwords(s) : Login(s, admin_pw)
    \/ Logout(s)
    \/ rerun(s)
    \/ \E n \in ToolNames, c \in CATEGORIES, q \in 0..MaxQty : AdminSave(s, n, c, q)
    \/ \E t \in ToolIds, n \in ToolNames, c \in CATEGORIES, q \in 0..MaxQty :
           SaveChanges(s, t, n, c, q)
    \/ \E t \in ToolIds : RemoveImage(s, t)
    \/ \E t \in ToolIds : ClickCheckOut(s, t)
    \/ co_read(s)
    \/ co_update(s)
    \/ co_insert(s)
    \/ \E t \in ToolIds : ClickCheckIn(s, t)
    \/ ci_holder(s)
    \/ \E t \in ToolIds : ClickMyCheckIn(s, t)
    \/ ci_update(s)
    \/ ci_insert(s)
    \/ \E t \in ToolIds, dh \in BOOLEAN : ClickDelete(s, t, dh)
    \/ dt_read(s)
    \/ dt_delete_history(s)
    \/ dt_delete_tool(s)

\* Two browsers on the tools pages, a reliable database, ts left at its first value.
Next == \E s \in Sessions : SessionNext(s)

Spec == Init /\ [][Next]_vars

\* One browser (the administrator's) that also edits the roster and writes
\* the text logs.
NextLedger ==
    \E s \in Solo :
        \/ SessionNext(s)
        \/ \E new_emp \in Users : AddToRoster(s, new_emp)
        \/ \E rm_emp \in Users : DeleteSelected(s, rm_emp)
        \/ \E which \in {"extra", "bags"} : SubmitLog(s, which)

SpecLedger == Init /\ [][NextLedger]_vars

\* One browser whose record_checkout / record_checkin statements may fail.
NextFail ==
    \E s \in Solo :
        \/ SessionNext(s)
        \/ storage_failure(s)

SpecFail == Init /\ [][NextFail]_vars

\* The state after the administrator has saved 'drill' with the largest
\* quantity into 'Power Tools' and the page has rerun.
InitClock ==
    /\ tools = [t \in {1} |-> [name |-> "drill", category |-> "Power Tools",
                                quantity |-> MaxQty, current_out |-> 0]]
    /\ next_tool_id = 2
    /\ transactions = << >>
    /\ next_tx_id = 1
    /\ session = [s \in Sessions |-> [is_admin |-> s \in Solo, current_user |-> Guest]]
    /\ pc = [s \in Sessions |-> "idle"]
    /\ local = [s \in Sessions |-> NoLocals]
    /\ qty_edited = {}
    /\ users = {}
    /\ text_log = << >>
    /\ clock = 0

\* Two browsers checking that tool out and in, and a running clock.
NextClock ==
    \/ \E s \in Sessions :
          \/ UseRoster(s, NameTyped(s))
          \/ \E admin_pw \in Passwords(s) : Login(s, admin_pw)
          \/ Logout(s)
          \/ rerun(s)
          \/ \E t \in ToolIds : ClickCheckOut(s, t)
          \/ co_read(s)
          \/ co_update(s)
          \/ co_insert(s)
          \/ \E t \in ToolIds : ClickCheckIn(s, t)
          \/ ci_holder(s)
          \/ \E t \in ToolIds : ClickMyCheckIn(s, t)
          \/ ci_update(s)
          \/ ci_insert(s)
    \/ Tick

SpecClock == InitClock /\ [][NextClock]_vars

\* The state after the administrator has saved 'drill' into 'Power Tools' and
\* 'saw' into 'Hand Tools' (ids 1 and 2) and Alice has checked the drill out.
InitCatalog ==
    /\ tools = [t \in {1, 2} |->
                  [name |-> IF t = 1 THEN "drill" ELSE "saw",
                   category |-> IF t = 1 THEN "Power Tools" ELSE "Hand Tools",
                   quantity |-> 1,
                   current_out |-> IF t = 1 THEN 1 ELSE 0]]
    /\ next_tool_id = 3
    /\ transactions = <<[id |-> 1, tool_id |-> 1, user_name |-> "Alice",
                         action |-> "check_out", ts |-> 0]>>
    /\ next_tx_id = 2
    /\ session = [s \in Sessions |-> [is_admin |-> s \in Solo, current_user |-> Guest]]
    /\ pc = [s \in Sessions |-> "idle"]
    /\ local = [s \in Sessions |-> NoLocals]
    /\ qty_edited = {}
    /\ users = {}
    /\ text_log = << >>
    /\ clock = 0

\* The administrator's browser editing the catalog and checking tools in.
NextCatalog ==
    \E s \in Solo :
        \/ UseRoster(s, NameTyped(s))
        \/ \E admin_pw \in Passwords(s) : Login(s, admin_pw)
        \/ Logout(s)
        \/ rerun(s)
        \/ \E n \in ToolNames, c \in CATEGORIES, q \in 0..MaxQty : AdminSave(s, n, c, q)
        \/ \E t \in CatalogIds, n \in ToolNames, c \in CATEGORIES, q \in 0..MaxQty :
               SaveChanges(s, t, n, c, q)
        \/ \E t \in CatalogIds : ClickCheckIn(s, t)
        \/ ci_holder(s)
        \/ ci_update(s)
        \/ ci_insert(s)
        \/ \E t \in CatalogIds, dh \in BOOLEAN : ClickDelete(s, t, dh)
        \/ dt_read(s)
        \/ dt_delete_history(s)
        \/ dt_delete_tool(s)

SpecCatalog == InitCatalog /\ [][NextCatalog]_vars

\* ------------------------------------------------------------ properties
\* No handler is between two of its database statements.
Quiescent == \A s \in Sessions : pc[s] \in {"idle", "saved", "save_error", "co_false",
                                             "ci_refused", "dt_raised", "db_error"}

TypeOK ==
    /\ DOMAIN tools \subseteq CatalogIds
    /\ \A t \in DOMAIN tools :
          /\ tools[t].name \in ToolNames
          /\ tools[t].category \in CATEGORIES
          /\ tools[t].quantity \in 0..MaxQty
          /\ tools[t].current_out \in Nat
    /\ next_tx_id \in 1..(MaxEvents + 1)
    /\ Len(transactions) < next_tx_id
    /\ \A i \in 1..Len(transactions) :
          /\ transactions[i].user_name \in Actors
          /\ transactions[i].action \in {"check_out", "check_in"}
    /\ \A s \in Sessions : session[s].current_user \in Actors

\* The holder set of the specification, replayed from the ledger.
RECURSIVE CountSeq(_, _, _)
CountSeq(evs, u, a) ==
    IF evs = <<>> THEN 0
    ELSE (IF Head(evs).user_name = u /\ Head(evs).action = a THEN 1 ELSE 0)
         + CountSeq(Tail(evs), u, a)

\* Net outstanding count of actor u for tool tid: #check_out - #check_in.
net(tid, u) ==
    CountSeq(events_for(tid), u, "check_out") - CountSeq(events_for(tid), u, "check_in")

RECURSIVE SumNet(_, _)
SumNet(tid, us) ==
    IF us = {} THEN 0
    ELSE LET u == CHOOSE x \in us : TRUE
         IN Max(net(tid, u), 0) + SumNet(tid, us \ {u})

\* Size of the holder multiset obtained by replaying the ledger of tool tid.
holders_size(tid) == SumNet(tid, Actors)

\* C1: two concurrent record_checkout calls never both take the last free
\* unit: a tool whose quantity was never edited never has current_out above
\* its quantity.
C1_NoOversubscription ==
    \A t \in DOMAIN tools :
        t \notin qty_edited => tools[t].current_out <= tools[t].quantity

\* C2: whenever no handler is between its statements, every tool's cached
\* current_out equals the size of the holder multiset replayed from its
\* ledger (sum over actors of max(#check_out - #check_in, 0)).
C2_CacheMatchesHolders ==
    Quiescent => \A t \in DOMAIN tools : tools[t].current_out = holders_size(t)

\* C3: a non-admin session decrements current_out for a check-in only when
\* its user is in the ledger-derived holder set of the tool (net > 0)
\* immediately before.
C3_CheckInOnlyByHolder ==
    [][\A s \in Sessions :
          (pc[s] = "ci_update" /\ pc'[s] = "ci_insert" /\ ~session[s].is_admin)
              => net(local[s].tool_id, session[s].current_user) > 0]_vars

\* C4: whenever no handler is running, every non-admin user with a positive
\* net count for an existing tool passes the check-in gate of that tool's row
\* (stated for tools that are not oversubscribed and whose current_out agrees
\* with the ledger, so that no other defect is needed to refute it).
C4_HolderCanCheckIn ==
    Quiescent =>
        \A s \in Sessions : \A t \in DOMAIN tools :
            (/\ ~session[s].is_admin
             /\ net(t, session[s].current_user) > 0
             /\ tools[t].current_out = holders_size(t)
             /\ tools[t].current_out <= tools[t].quantity)
                => can_checkin(tools[t].current_out, FALSE, last_holder(t),
                               session[s].current_user)

\* The step of session s leaves both tables as they are.
TablesKept == tools' = tools /\ transactions' = transactions

\* C5: record_checkout that reads quantity - current_out <= 0 returns False
\* and writes nothing: the tools row and the ledger stay as they were, up to
\* and including the page's rerun.
C5_CheckoutRejectedWhenNoUnits ==
    [][\A s \in Sessions :
          /\ (/\ pc[s] = "co_read"
              /\ pc'[s] # "co_read"
              /\ local[s].tool_id \in DOMAIN tools
              /\ tools[local[s].tool_id].quantity - tools[local[s].tool_id].current_out <= 0)
                => (pc'[s] = "co_false" /\ TablesKept)
          /\ (pc[s] = "co_false" /\ pc'[s] # "co_false")
                => (pc'[s] = "idle" /\ TablesKept)]_vars

\* C5 witness: quantity 1, one outstanding checkout in a ledger of length 1,
\* and another session's record_checkout has returned False.
C5_Witness ==
    \E s \in Sessions : \E t \in DOMAIN tools :
        /\ pc[s] = "co_false"
        /\ local[s].tool_id = t
        /\ tools[t].quantity = 1
        /\ tools[t].current_out = 1
        /\ Len(transactions) = 1
        /\ transactions[1].action = "check_out"
        /\ transactions[1].user_name # session[s].current_user

\* C6: every row list_tools_by_category returns reports available_qty >= 0,
\* and a row is drawn Available only when quantity - current_out > 0.
C6_AvailabilityNeverNegative ==
    \A c \in CATEGORIES : \A row \in list_tools_by_category(c) :
        /\ row.available_qty >= 0
        /\ row_chip(row) = "Available" => row.quantity - row.current_out > 0

\* C6 witness: an administrator has cut the quantity below the units out, and
\* the row reports 0 available and is drawn Unavailable.
C6_Witness ==
    \E c \in CATEGORIES : \E row \in list_tools_by_category(c) :
        /\ row.id \in qty_edited
        /\ row.current_out > row.quantity
        /\ row.available_qty = 0
        /\ row_chip(row) = "Unavailable"

\* C7 as claimed: delete_tool with delete_history=True is never refused.
C7_DeleteWithHistorySucceeds ==
    \A s \in Sessions : pc[s] = "dt_raised" => ~local[s].delete_history

\* C7 amended: delete_tool with delete_history=True that reads current_out > 0
\* raises and writes nothing: the tools row and the ledger stay as they were.
C7_DeleteWithHistoryRefused ==
    [][\A s \in Sessions :
          /\ (/\ pc[s] = "dt_read"
              /\ pc'[s] # "dt_read"
              /\ local[s].delete_history
              /\ local[s].tool_id \in DOMAIN tools
              /\ tools[local[s].tool_id].current_out > 0)
                => (pc'[s] = "dt_raised" /\ TablesKept)
          /\ (pc[s] = "dt_raised" /\ local[s].delete_history /\ pc'[s] # "dt_raised")
                => (pc'[s] = "idle" /\ TablesKept)]_vars

\* C7 witness: a delete with history was refused; the tool and its event remain.
C7_Witness ==
    \E s \in Sessions : \E t \in DOMAIN tools :
        /\ pc[s] = "dt_raised"
        /\ local[s].delete_history
        /\ local[s].tool_id = t
        /\ tools[t].current_out > 0
        /\ events_for(t) # << >>

\* C8: delete_tool without delete_history that reads current_out > 0 raises
\* and writes nothing: the tools row, its current_out and the ledger stay.
C8_DeleteRefusedWhileOut ==
    [][\A s \in Sessions :
          /\ (/\ pc[s] = "dt_read"
              /\ pc'[s] # "dt_read"
              /\ ~local[s].delete_history
              /\ local[s].tool_id \in DOMAIN tools
              /\ tools[local[s].tool_id].current_out > 0)
                => (pc'[s] = "dt_raised" /\ TablesKept)
          /\ (pc[s] = "dt_raised" /\ ~local[s].delete_history /\ pc'[s] # "dt_raised")
                => (pc'[s] = "idle" /\ TablesKept)]_vars

\* C8 witness: a delete without history was refused; the tool and its event remain.
C8_Witness ==
    \E s \in Sessions : \E t \in DOMAIN tools :
        /\ pc[s] = "dt_raised"
        /\ ~local[s].delete_history
        /\ local[s].tool_id = t
        /\ tools[t].current_out > 0
        /\ events_for(t) # << >>

\* C9: deletion with history is atomic: no step empties a tool's ledger while
\* leaving its row, and when the delete completes no event references the tool.
C9_PurgeAtomic ==
    [][/\ \A t \in DOMAIN tools :
             (events_for(t) # << >> /\ events_for(t)' = << >>) => t \notin DOMAIN tools'
       /\ \A s \in Sessions : \A t \in ToolIds :
             (/\ pc[s] = "dt_delete_tool" /\ local[s].delete_history /\ local[s].tool_id = t
              /\ pc'[s] = "idle")
                 => events_for(t)' = << >>]_vars

\* The rows named n.
named(n) == { t \in DOMAIN tools : tools[t].name = n }

\* C10 as claimed: saving name n into category c while n exists in another
\* category leaves that row untouched and adds a second row (n, c).
C10_SecondToolCreated ==
    [][\A s \in Sessions, n \in ToolNames, c \in CATEGORIES, q \in 0..MaxQty :
          (AdminSave(s, n, c, q) /\ \E t \in named(n) : tools[t].category # c)
              => /\ \A t \in named(n) : tools'[t] = tools[t]
                 /\ \E t2 \in DOMAIN tools' \ DOMAIN tools :
                        tools'[t2].name = n /\ tools'[t2].category = c]_vars

\* C10 amended: saving name n into category c while n exists in another
\* category moves that one row: same id, name and current_out, category c
\* and the quantity typed; no row is added.
C10_SaveMovesExistingTool ==
    [][\A s \in Sessions : (pc[s] = "idle" /\ pc'[s] = "saved") =>
        \A n \in ToolNames, c \in CATEGORIES, q \in 0..MaxQty :
          ((\E t \in named(n) : tools[t].category # c) /\ AdminSave(s, n, c, q))
              => /\ DOMAIN tools' = DOMAIN tools
                 /\ \A t \in DOMAIN tools :
                        tools'[t] = IF tools[t].name = n
                                    THEN [tools[t] EXCEPT !.category = c, !.quantity = q]
                                    ELSE tools[t]
                 /\ Cardinality({ t \in DOMAIN tools' : tools'[t].name = n }) = 1]_vars

\* C10 witness: a save has just moved a tool that has a unit out.
C10_Witness ==
    \E s \in Sessions :
        /\ pc[s] = "saved"
        /\ local[s].moved
        /\ local[s].tool_id \in DOMAIN tools
        /\ tools[local[s].tool_id].current_out > 0

\* C11: an administrator edit (Save changes, or Save to selected category on
\* an existing name) that gives a quantity below the tool's current_out is
\* accepted and stores exactly that quantity; the row keeps its id and its
\* current_out and the ledger is untouched.  While current_out >= quantity
\* the row reports available_qty 0, the Check Out button is not offered and
\* record_checkout returns False.
C11_QuantityReductionAccepted ==
    [][/\ \A s \in Sessions :
             (pc[s] = "idle" /\ pc'[s] \in {"idle", "save_error"}
              /\ transactions' = transactions) =>
           \A t \in DOMAIN tools : \A n \in ToolNames, c \in CATEGORIES, q \in 0..MaxQty :
             (q < tools[t].current_out /\ SaveChanges(s, t, n, c, q))
                 => /\ pc'[s] # "save_error"
                    /\ DOMAIN tools' = DOMAIN tools
                    /\ tools'[t].quantity = q
                    /\ tools'[t].current_out = tools[t].current_out
                    /\ transactions' = transactions
       /\ \A s \in Sessions : (pc[s] = "idle" /\ pc'[s] = "saved") =>
           \A n \in ToolNames, c \in CATEGORIES, q \in 0..MaxQty :
             ((\E t \in named(n) : q < tools[t].current_out) /\ AdminSave(s, n, c, q))
                 => /\ DOMAIN tools' = DOMAIN tools
                    /\ \A t \in named(n) : /\ tools'[t].quantity = q
                                           /\ tools'[t].current_out = tools[t].current_out
                    /\ transactions' = transactions
       /\ \A t \in DOMAIN tools :
             tools[t].current_out >= tools[t].quantity
                 => /\ available_qty(tools[t]) = 0
                    /\ \A s \in Sessions :
                          /\ pc'[s] = "co_read" => ~ClickCheckOut(s, t)
                          /\ (pc[s] = "co_read" /\ local[s].tool_id = t /\ pc'[s] # "co_read")
                                => (pc'[s] = "co_false" /\ TablesKept)]_vars

\* C11 witness: quantity 1 with one unit out was cut to 0 by Save changes; the
\* holder's event is still the ledger and the row reports 0 available.
C11_Witness ==
    \E t \in DOMAIN tools :
        /\ t \in qty_edited
        /\ tools[t].quantity = 0
        /\ tools[t].current_out = 1
        /\ Len(events_for(t)) = 1
        /\ last_holder(t) \in Users
        /\ available_qty(tools[t]) = 0
        /\ \A s \in Sessions : pc[s] = "idle"

\* C12: the ledger is append-only.  Every step other than the
\* "delete from transactions" of delete_tool(delete_history=True) keeps each
\* row of transactions in place with its id, tool_id, user_name and action,
\* and any row it adds comes after them with a larger id.
C12_LedgerAppendOnly ==
    [][(\A s \in Sessions : ~dt_delete_history(s))
          => /\ Len(transactions') >= Len(transactions)
             /\ \A i \in 1..Len(transactions) : transactions'[i] = transactions[i]
             /\ \A j \in (Len(transactions) + 1)..Len(transactions') :
                   \A i \in 1..Len(transactions) : transactions'[j].id > transactions[i].id]_vars

\* C12 witness: a tool with a check_out and a check_in in the ledger was
\* deleted without its history, the roster was edited and a text-log entry
\* was written; both events are still there.
C12_Witness ==
    /\ tools = << >>
    /\ next_tool_id > 1
    /\ Len(transactions) = 2
    /\ transactions[1].action = "check_out"
    /\ transactions[2].action = "check_in"
    /\ users # {}
    /\ text_log # << >>

\* C13: no check_out row of the ledger carries the actor 'Guest' or an empty
\* name, and no session whose current_user is 'Guest' gets past the Check Out
\* button into record_checkout.
C13_NoGuestCheckout ==
    /\ \A i \in 1..Len(transactions) :
          transactions[i].action = "check_out" => transactions[i].user_name \notin {Guest, ""}
    /\ \A s \in Sessions :
          pc[s] \in {"co_read", "co_update", "co_insert"} => session[s].current_user # Guest

\* Number of rows of the ledger of tool tid with action a.
event_count(tid, a) == Len(SelectSeq(events_for(tid), LAMBDA e : e.action = a))

\* Every current_out is matched by the ledger: #check_out - #check_in.
CountersMatchLedger ==
    \A t \in DOMAIN tools :
        tools[t].current_out = event_count(t, "check_out") - event_count(t, "check_in")

\* C14: a storage failure inside record_checkout or record_checkin leaves no
\* partial effect: when the handler has ended with the error (one browser, no
\* other handler running), no current_out is left changed without its
\* ledger row, as it was before the call.
C14_NoPartialEffect ==
    \A s \in Sessions : pc[s] = "db_error" => CountersMatchLedger

\* Between calls, with one browser, the counters match the ledger.
CountersMatchBetweenCalls ==
    (\A s \in Sessions : pc[s] = "idle") => CountersMatchLedger

\* The columns of the tools table an administrator edits.
catalog == [t \in DOMAIN tools |->
              [name |-> tools[t].name, category |-> tools[t].category,
               quantity |-> tools[t].quantity]]

\* C15: tool records are created, updated and deleted only by administrator
\* sessions.  Every step that changes the catalog (a row added or removed, a
\* name, category or quantity changed) is Save to selected category or Save
\* changes (with the values the row then holds) or the delete of
\* delete_tool, taken by a session whose is_admin is true; Remove image and Delete tool are pressed, and delete_tool runs, only
\* in such a session.  is_admin turns true only by Login with ADMIN_PASSWORD,
\* and Logout and a Login with another password leave it false.
C15_CatalogByAdminOnly ==
    [][/\ (tools' # tools /\ catalog' # catalog)
             => \E s \in Sessions :
                   /\ session[s].is_admin
                   /\ \/ \E t \in DOMAIN tools' :
                             AdminSave(s, tools'[t].name, tools'[t].category, tools'[t].quantity)
                      \/ \E t \in DOMAIN tools \cap DOMAIN tools' :
                             SaveChanges(s, t, tools'[t].name, tools'[t].category,
                                         tools'[t].quantity)
                      \/ dt_delete_tool(s)
       /\ \A s \in Sessions :
             /\ (~session[s].is_admin /\ pc[s] = "idle" /\ pc'[s] = "saved")
                   => ~\E t \in ToolIds : RemoveImage(s, t)
             /\ (~session[s].is_admin /\ pc[s] = "idle" /\ pc'[s] = "dt_read")
                   => ~\E t \in ToolIds, dh \in BOOLEAN : ClickDelete(s, t, dh)
             /\ pc[s] \in {"dt_read", "dt_delete_history", "dt_delete_tool"} => session[s].is_admin
             /\ (~session[s].is_admin /\ session'[s].is_admin) => Login(s, ADMIN_PASSWORD)
             /\ (session[s].is_admin /\ ~session'[s].is_admin)
                   => (Logout(s) \/ \E pw \in Passwords(s) \ {ADMIN_PASSWORD} : Login(s, pw))
             /\ (session'[s].is_admin /\ session'[s] # session[s])
                   => ~(Logout(s) \/ \E pw \in Passwords(s) \ {ADMIN_PASSWORD} : Login(s, pw))]_vars

\* C15 witness: a tool was created, its quantity edited, and no session is an
\* administrator any more; the other browser is on the page with a user name.
C15_Witness ==
    /\ \E t \in DOMAIN tools : t \in qty_edited
    /\ \A s \in Sessions : ~session[s].is_admin /\ pc[s] = "idle"
    /\ \E s \in Sessions : session[s].current_user = "Bob"

\* C16: one actor can hold several units of a tool.  record_checkout admits
\* every call that reads quantity - current_out > 0, whoever holds units
\* already: it adds one to current_out and appends a check_out row by the
\* caller, which raises the caller's net count by one.  Once current_out has
\* reached quantity the row reports 0 available, the Check Out button is not
\* offered and a call already under way returns False.
C16_SameActorHoldsSeveral ==
    [][\A s \in Sessions : \A tid \in ToolIds, u \in Actors :
          (local[s].tool_id = tid /\ session[s].current_user = u) =>
             /\ (/\ pc[s] = "co_read" /\ pc'[s] # "co_read"
                 /\ tid \in DOMAIN tools
                 /\ tools[tid].quantity - tools[tid].current_out > 0)
                   => pc'[s] = "co_update"
             /\ (pc[s] = "co_update" /\ pc'[s] # "co_update" /\ tid \in DOMAIN tools)
                   => (pc'[s] = "co_insert" /\ tools'[tid].current_out = tools[tid].current_out + 1)
             /\ (pc[s] = "co_insert" /\ pc'[s] # "co_insert")
                   => /\ Len(transactions') = Len(transactions) + 1
                      /\ net(tid, u)' = net(tid, u) + 1
             /\ \A t \in DOMAIN tools :
                   tools[t].current_out >= tools[t].quantity
                       => /\ available_qty(tools[t]) = 0
                          /\ ~ClickCheckOut(s, t)
                          /\ (pc[s] = "co_read" /\ tid = t /\ pc'[s] # "co_read")
                                => pc'[s] = "co_false"]_vars

\* C16 witness: every unit of a tool of the largest quantity is held by
\* Alice (MaxQty check_out rows by Alice, no check_in), current_out equals
\* the quantity, 0 are available, and one more record_checkout has returned
\* False.
C16_Witness ==
    \E t \in DOMAIN tools :
        /\ tools[t].quantity = MaxQty
        /\ tools[t].current_out = MaxQty
        /\ net(t, "Alice") = MaxQty
        /\ holders_size(t) = MaxQty
        /\ event_count(t, "check_in") = 0
        /\ available_qty(tools[t]) = 0
        /\ \E s \in Sessions : pc[s] = "co_false" /\ local[s].tool_id = t

\* C17: in every reachable state, whatever the interleaving of check-ins,
\* every tool's current_out is >= 0 and every row's reported available_qty is
\* at most its quantity.
C17_CurrentOutNeverNegative ==
    /\ \A t \in DOMAIN tools : tools[t].current_out >= 0
    /\ \A c \in CATEGORIES : \A row \in list_tools_by_category(c) :
          row.available_qty <= row.quantity

\* C17 witness: two check-ins ran against one unit out (the ledger of the
\* tool has more check_in rows than check_out rows) and current_out is 0.
C17_Witness ==
    \E t \in DOMAIN tools :
        /\ event_count(t, "check_in") > event_count(t, "check_out")
        /\ event_count(t, "check_out") > 0
        /\ tools[t].current_out = 0
        /\ available_qty(tools[t]) = tools[t].quantity

\* C18: every row record_checkout or record_checkin appends references a
\* tool that is in the tools table when the row is inserted; a call for a
\* tool id that is not there appends nothing.
C18_EventsReferenceExistingTool ==
    [][\A j \in (Len(transactions) + 1)..Len(transactions') :
          transactions'[j].tool_id \in DOMAIN tools']_vars

\* C19: an administrator's session passes the Check In gate of any row read
\* with current_out > 0, whoever last_holder names; its record_checkin takes
\* one off a current_out that is above 0 and appends one check_in row for
\* the tool under the session's own current_user, so no other actor's net
\* count changes.
C19_AdminChecksInAnyTool ==
    [][\A s \in Sessions : \A tid \in ToolIds, u \in Actors :
          (session[s].is_admin /\ local[s].tool_id = tid /\ session[s].current_user = u) =>
             /\ (pc[s] = "ci_holder" /\ pc'[s] # "ci_holder" /\ local[s].current_out > 0)
                   => pc'[s] = "ci_update"
             /\ (/\ pc[s] = "ci_update" /\ pc'[s] # "ci_update"
                 /\ tid \in DOMAIN tools /\ tools[tid].current_out > 0)
                   => tools'[tid].current_out = tools[tid].current_out - 1
             /\ (pc[s] = "ci_insert" /\ pc'[s] # "ci_insert")
                   => /\ Len(transactions') = Len(transactions) + 1
                      /\ SubSeq(transactions', 1, Len(transactions)) = transactions
                      /\ LET e == transactions'[Len(transactions')]
                         IN e.tool_id = tid /\ e.user_name = u /\ e.action = "check_in"
                      /\ \A v \in Actors \ {u} : net(tid, v)' = net(tid, v)]_vars

\* C19 witness: an administrator whose current_user is not the holder has
\* checked the tool in: the ledger is the holder's check_out followed by
\* the administrator's check_in, current_out is 0 and the holder's net is 1.
C19_Witness ==
    \E s \in Sessions : \E t \in DOMAIN tools :
        /\ session[s].is_admin
        /\ pc[s] = "idle"
        /\ Len(transactions) = 2
        /\ transactions[1].tool_id = t /\ transactions[1].action = "check_out"
        /\ transactions[2].tool_id = t /\ transactions[2].action = "check_in"
        /\ transactions[2].user_name = session[s].current_user
        /\ transactions[1].user_name # session[s].current_user
        /\ net(t, transactions[1].user_name) = 1
        /\ tools[t].current_out = 0

\* C20: last_holder(tool) is decided by the tool's newest event alone, the
\* one that every other event of the tool precedes in (ts, id) order (smaller
\* ts, or equal ts and smaller id): its user_name when it is a check_out,
\* None when it is a check_in, and None when the tool has no events.
C20_LastHolderIsNewestEvent ==
    \A t \in ToolIds :
        LET evs == events_for(t)
        IN IF evs = << >>
           THEN last_holder(t) = None
           ELSE \E i \in 1..Len(evs) :
                   /\ \A j \in 1..Len(evs) \ {i} :
                         \/ evs[j].ts < evs[i].ts
                         \/ (evs[j].ts = evs[i].ts /\ evs[j].id < evs[i].id)
                   /\ last_holder(t) = IF evs[i].action = "check_out"
                                       THEN evs[i].user_name ELSE None

\* C20 witness: the newest event by ts is a check_in that is not the last row
\* inserted; the last row, another actor's check_out whose transaction began
\* earlier, shares its ts with the first row.  last_holder names nobody.
C20_Witness ==
    \E t \in DOMAIN tools :
        LET evs == events_for(t)
        IN /\ Len(evs) = 3
           /\ evs[1].ts = evs[3].ts
           /\ evs[3].ts < evs[2].ts
           /\ evs[1].action = "check_out"
           /\ evs[2].action = "check_in"
           /\ evs[3].action = "check_out"
           /\ evs[3].user_name # evs[2].user_name
           /\ last_holder(t) = None

\* C21: tool names stay unique.  No two rows of tools carry the same name,
\* before or after any step; Save to selected category on an existing name
\* updates that row in place (same id, same name and current_out, the
\* category and quantity given) and adds no row; Save changes with a name
\* that another row carries fails with the error shown and leaves the tools
\* table as it was.
C21_NamesStayUnique ==
    [][/\ \A t1, t2 \in DOMAIN tools : tools[t1].name = tools[t2].name => t1 = t2
       /\ \A t1, t2 \in DOMAIN tools' : tools'[t1].name = tools'[t2].name => t1 = t2
       /\ \A s \in Sessions, n \in ToolNames, c \in CATEGORIES, q \in 0..MaxQty :
             (AdminSave(s, n, c, q) /\ named(n) # {})
                 => /\ DOMAIN tools' = DOMAIN tools
                    /\ \A t \in DOMAIN tools :
                          tools'[t] = IF tools[t].name = n
                                      THEN [tools[t] EXCEPT !.category = c, !.quantity = q]
                                      ELSE tools[t]
       /\ \A s \in Sessions, t \in CatalogIds, n \in ToolNames, c \in CATEGORIES, q \in 0..MaxQty :
             (SaveChanges(s, t, n, c, q) /\ \E t2 \in DOMAIN tools \ {t} : tools[t2].name = n)
                 => (pc'[s] = "save_error" /\ tools' = tools /\ transactions' = transactions)]_vars

\* C21 witness: 'saw' was deleted and saved again (id 3), 'drill' was edited
\* in place with its unit still out, and renaming the drill to the other
\* row's name has just failed.
C21_Witness ==
    \E s \in Sessions :
        /\ pc[s] = "save_error"
        /\ local[s].tool_id = 1
        /\ DOMAIN tools = {1, 3}
        /\ tools[1].name # tools[3].name
        /\ 1 \in qty_edited
        /\ tools[1].current_out = 1

\* C22: whenever no handler is between two of its statements, every tool's
\* current_out equals the number of check_out rows minus the number of
\* check_in rows of its ledger, with any number of sessions pressing the
\* buttons their pages offer.
C22_CounterEqualsLedgerBalance ==
    Quiescent => CountersMatchLedger

====
